---- MODULE Spec2Model ----
(***************************************************************************)
(* Agronomic placement and simulation engine                               *)
(* (src/app/services/agronomic_engine.py).                                 *)
(*                                                                         *)
(* Units.  Positions and distances are integers in centimetres (the        *)
(* source uses metres as floats: 1.0 m = 100).  Spacings are kept in       *)
(* tenths of a centimetre so that the interpolation at soil quality 0.7    *)
(* is exact; soil quality is kept in tenths (0.7 = 7).  Fitness is kept    *)
(* in hundredths of a point (10 points = 1000).  math.sqrt is the integer  *)
(* square root of the squared distance taken at millimetre resolution;     *)
(* every comparison of a distance against a threshold is made on the       *)
(* squares and is exact.                                                   *)
(***************************************************************************)
EXTENDS Integers, Sequences, FiniteSets, TLC

VARIABLES
    \* ---- PlacementOptimizer.optimize_placement_genetic -------------------
    plants,           \* argument: list of PlantSpecs
    garden_zones,     \* argument: list of GardenZone
    population_size,  \* self.population_size
    generations,      \* self.generations
    heap,             \* the PlantPlacement objects, by object identity
    population,       \* list of individuals; an individual is a list of object ids
    fitness_scores,   \* list of fitness values of the current generation
    best_fitness,     \* running best fitness
    best_solution,    \* running best individual (a list of object ids) or None
    new_population,   \* the population under construction
    generation,       \* loop counter of the generation loop
    pairing,          \* loop counter of the pairing loop
    child1, child2,   \* the two children of the current pairing
    moves,            \* number of placements moved by _mutate so far
    pc,               \* position in optimize_placement_genetic
    result,           \* value returned by optimize_placement_genetic
    error,            \* exception that left optimize_placement_genetic
    \* ---- PlantSpecs / AgronomicCalculator.calculate_optimal_spacing ------
    profile,          \* the PlantSpecs object under construction / constructed
    constructed,      \* TRUE once PlantSpecs(...) has returned an object
    cache,            \* the lru_cache of calculate_optimal_spacing
    spacing_ret,      \* last call of calculate_optimal_spacing: arguments and value
    \* ---- _calculate_fitness / detect_conflicts on a given arrangement ----
    placements,       \* argument: list of PlantPlacement (by value)
    fit_zones,        \* argument: list of GardenZone
    fitness_ret,      \* last value returned by _calculate_fitness, with its argument
    conflicts_ret,    \* last value returned by detect_conflicts, with its argument
    conflicts_prev,   \* the call of detect_conflicts before the last one
    \* ---- AgronomicCalculator.calculate_water_needs -----------------------
    water_ret,        \* the last two calls of calculate_water_needs
    \* ---- AgronomicCalculator.calculate_growth_prediction -----------------
    growth_ret,       \* last call of calculate_growth_prediction: arguments, outcome
    \* ---- AgronomicEngine / IrrigationPlanner ------------------------------
    eng_placements,   \* the caller's list of PlantPlacement
    eng_zones,        \* the caller's list of GardenZone
    eng_env,          \* the caller's environmental_data
    eng_ret,          \* last engine call: operation, arguments, returned report
    \* ---- two optimize_placement calls on one engine -----------------------
    other,            \* arguments and locals of the call that is not running now
    running,          \* the call that is running now: 1 or 2
    scheduler         \* what switches between the calls: threads or the event loop

vars == <<plants, garden_zones, population_size, generations, heap, population,
          fitness_scores, best_fitness, best_solution, new_population,
          generation, pairing, child1, child2, moves, pc, result, error,
          profile, constructed, cache, spacing_ret,
          placements, fit_zones, fitness_ret, conflicts_ret, conflicts_prev,
          water_ret, growth_ret, eng_placements, eng_zones, eng_env, eng_ret,
          other, running, scheduler>>

gaVars == <<plants, garden_zones, population_size, generations, heap, population,
            fitness_scores, best_fitness, best_solution, new_population,
            generation, pairing, child1, child2, moves, pc, result, error>>

calcVars == <<profile, constructed, cache, spacing_ret>>

fitVars == <<placements, fit_zones, fitness_ret, conflicts_ret, conflicts_prev>>

waterVars == <<water_ret>>

growthVars == <<growth_ret>>

engVars == <<eng_placements, eng_zones, eng_env, eng_ret>>

taskVars == <<other, running, scheduler>>

\* everything outside one group
notGaVars == <<calcVars, fitVars, waterVars, growthVars, engVars, taskVars>>
notCalcVars == <<gaVars, fitVars, waterVars, growthVars, engVars, taskVars>>
notFitVars == <<gaVars, calcVars, waterVars, growthVars, engVars, taskVars>>
notWaterVars == <<gaVars, calcVars, fitVars, growthVars, engVars, taskVars>>
notGrowthVars == <<gaVars, calcVars, fitVars, waterVars, engVars, taskVars>>
notEngVars == <<gaVars, calcVars, fitVars, waterVars, growthVars, taskVars>>

-----------------------------------------------------------------------------
(* Bounds of the model *)

MaxGen == 2          \* largest configured number of generations
MaxMoves == 1        \* placements moved by _mutate in one run
MaxLen == 3          \* longest arrangement handed to fitness / detector

-----------------------------------------------------------------------------
(* Values *)

NegInf == -1000000000        \* float('-inf')
None == <<0>>                \* Python None where a list of object ids is expected
SoilAssumed == 7             \* the fixed soil quality 0.7 of fitness and detector
TournamentSize == 3
BasePoints == 1000           \* 10 points per placement
CompatPenalty == 5000        \* 50 points
ZonePenalty == 10000         \* 100 points
FitCompatDist == 100         \* "distance < 1.0" in _calculate_fitness
DetCompatDist == 200         \* "distance < 2.0" in detect_conflicts
PiNum == 355                 \* math.pi as the fraction PiNum / PiDen
PiDen == 113

Min(a, b) == IF a <= b THEN a ELSE b
Max(a, b) == IF a >= b THEN a ELSE b

RECURSIVE SqrtBisect(_, _, _)
SqrtBisect(n, lo, hi) ==
    IF lo >= hi THEN lo
    ELSE LET mid == (lo + hi + 1) \div 2
         IN  IF mid * mid <= n THEN SqrtBisect(n, mid, hi)
                               ELSE SqrtBisect(n, lo, mid - 1)

\* math.sqrt, rounded down to an integer
ISqrt(n) == SqrtBisect(n, 0, 40000)

-----------------------------------------------------------------------------
(* PlantSpecs, GardenZone, PlantPlacement *)

\* PlantSpecs(...): the dataclass constructor followed by __post_init__,
\* which only converts the two name collections to tuples.  It accepts
\* every combination of field values.
\* Fields: spacings and width_max in cm, growth_days in days,
\* yield_per_plant in tenths of a kilogram.
PlantSpecs(name, smin, sopt, water, growth_days, width_max, yield_per_plant, companions, incompatibles) ==
    [name |-> name, spacing_min |-> smin, spacing_optimal |-> sopt,
     water_need |-> water, growth_days |-> growth_days,
     width_max |-> width_max, yield_per_plant |-> yield_per_plant,
     companion_plants |-> companions, incompatible_plants |-> incompatibles]

\* area in m^2, slope in degrees, coordinates in cm
GardenZone(id, area, sun_exposure, slope, cx, cy) ==
    [id |-> id, area |-> area, sun_exposure |-> sun_exposure, slope |-> slope,
     coordinates |-> <<cx, cy>>]

\* planted_date is a day number; health_score and the two stresses are in
\* tenths and take the defaults of the dataclass (1.0, 0.0, 0.0)
PlantPlacement(plant_id, specs, x, y, planted_date, current_stage) ==
    [plant_id |-> plant_id, plant_specs |-> specs, x |-> x, y |-> y,
     planted_date |-> planted_date, current_stage |-> current_stage,
     health_score |-> 10, water_stress |-> 0, nutrient_stress |-> 0]

Tomato == PlantSpecs("Tomato", 45, 60, "high", 80, 50, 30, {}, {"Potato"})
Basil  == PlantSpecs("Basil", 20, 30, "medium", 60, 30, 5, {"Tomato"}, {})
Potato == PlantSpecs("Potato", 30, 40, "medium", 90, 40, 20, {}, {})

Thyme  == PlantSpecs("Thyme", 15, 20, "low", 70, 10, 2, {}, {})

Zone10 == GardenZone("z1", 10, "full_sun", 0, 0, 0)

\* list(GrowthStage)
GrowthStages == <<"seed", "seedling", "vegetative", "flowering", "fruiting", "harvest">>

\* a lookup that never finds the key
DictGetMissing(d, key, default) == default

\* A Python dict is the set of its <<key, value>> items; d.get(key, default)
DictGet(d, key, default) ==
    IF \E e \in d : e[1] = key THEN (CHOOSE e \in d : e[1] = key)[2] ELSE default

-----------------------------------------------------------------------------
(* AgronomicCalculator *)

\* calculate_optimal_spacing, body (without the lru_cache): the value in
\* tenths of a centimetre for a soil quality in tenths.
OptimalSpacing10(plant_specs, soil10) ==
    LET min_spacing == plant_specs.spacing_min
        optimal == plant_specs.spacing_optimal
        spacing10 == 10 * optimal + (min_spacing - optimal) * soil10
    IN  Max(spacing10, 10 * min_spacing)

\* squared distance of two placements, cm^2
Dist2(p1, p2) == (p1.x - p2.x) * (p1.x - p2.x) + (p1.y - p2.y) * (p1.y - p2.y)

\* math.sqrt((x1-x2)**2 + (y1-y2)**2) in tenths of a centimetre
Distance10(p1, p2) == ISqrt(100 * Dist2(p1, p2))

\* _is_in_zone: distance <= sqrt(area / pi), compared on the squares
\* (area in m^2 = 10000 cm^2)
IsInZone(placement, zone) ==
    LET dx == placement.x - zone.coordinates[1]
        dy == placement.y - zone.coordinates[2]
    IN  (dx * dx + dy * dy) * PiNum <= zone.area * 10000 * PiDen

InAnyZone(placement, zones) ==
    \E k \in 1..Len(zones) : IsInZone(placement, zones[k])

\* calculate_water_needs.  et0 is in tenths of a mm/day, soil moisture in
\* hundredths, width_max in cm.  Kc and the tier multiplier are kept in
\* tenths and the stress factor soil_moisture / 0.3 in thirtieths, so the
\* product below is the exact value of daily_water in units of
\* 1 / WaterUnit litre.
Et0Default == 50             \* weather_data.get('et0', 5.0)
KcDefault == 8               \* kc_values.get(growth_stage, 0.8)
MultiplierDefault == 10      \* {...}.get(plant_specs.water_need, 1.0)
WaterUnit == 300000000       \* 10 (et0) * 10 (kc) * 10 (multiplier) * 30 (stress) * 10000
WaterFloor == 30000000       \* the floor 0.1 litre in units of 1 / WaterUnit

kc_values ==
    {<<"seed", 3>>, <<"seedling", 5>>, <<"vegetative", 8>>,
     <<"flowering", 10>>, <<"fruiting", 11>>, <<"harvest", 7>>}

water_multipliers == {<<"low", 7>>, <<"medium", 10>>, <<"high", 13>>}

\* max(0.5, min(1.5, soil_moisture / 0.3)) in thirtieths
StressFactor30(soil_moisture) == Max(15, Min(45, soil_moisture))

\* the same body without the final max(0.1, daily_water)
WaterNeedsUnfloored(plant_specs, weather_data, soil_moisture, growth_stage) ==
    LET et0 == DictGet(weather_data, "et0", Et0Default)
        kc == DictGet(kc_values, growth_stage, KcDefault)
        water_multiplier == DictGet(water_multipliers, plant_specs.water_need, MultiplierDefault)
        stress_factor == StressFactor30(soil_moisture)
    IN  et0 * kc * water_multiplier * stress_factor *
            plant_specs.width_max * plant_specs.width_max

WaterNeeds(plant_specs, weather_data, soil_moisture, growth_stage) ==
    LET et0 == DictGet(weather_data, "et0", Et0Default)
        kc == DictGet(kc_values, growth_stage, KcDefault)
        water_multiplier == DictGet(water_multipliers, plant_specs.water_need, MultiplierDefault)
        stress_factor == StressFactor30(soil_moisture)
        daily_water == et0 * kc * water_multiplier * stress_factor *
                           plant_specs.width_max * plant_specs.width_max
    IN  Max(WaterFloor, daily_water)

\* calculate_growth_prediction.  Stresses and health_score are in tenths,
\* growth_modifier in eightieths (1.0 = 80, so that 1.0 - total_stress * 0.5
\* with total_stress = sum / 4 is the integer 80 - sum), predicted_yield in
\* units of 1 / 40000 kg, dates in whole days.
StressDefault == 0           \* environmental_factors.get(..., 0.0)

\* max(0.5, growth_modifier) only
GrowthModifierNoUpper(stress_sum) == Max(40, 80 - stress_sum)

\* growth_modifier = max(0.5, min(1.5, 1.0 - total_stress * 0.5))
GrowthModifier80(stress_sum) == Max(40, Min(120, 80 - stress_sum))

GrowthPrediction(plant_specs, placement, environmental_factors, now) ==
    LET water_stress == placement.water_stress
        nutrient_stress == placement.nutrient_stress
        health_score == placement.health_score
        temp_stress == DictGet(environmental_factors, "temperature_stress", StressDefault)
        humidity_stress == DictGet(environmental_factors, "humidity_stress", StressDefault)
        stress_sum == water_stress + nutrient_stress + temp_stress + humidity_stress
        growth_modifier == GrowthModifier80(stress_sum)
        \* int(growth_days / growth_modifier), growth_days >= 0
        adjusted_growth_days == (plant_specs.growth_days * 80) \div growth_modifier
        predicted_yield == plant_specs.yield_per_plant * health_score * (400 - 3 * stress_sum)
        days_elapsed == now - placement.planted_date
    IN  IF adjusted_growth_days = 0
        THEN [outcome |-> "ZeroDivisionError"]     \* days_elapsed / adjusted_growth_days
        ELSE [outcome |-> "returned",
              growth_modifier |-> growth_modifier,
              adjusted_growth_days |-> adjusted_growth_days,
              predicted_yield |-> predicted_yield,
              \* min(1.0, days_elapsed / adjusted_growth_days) as a fraction
              \* over adjusted_growth_days
              current_progress |-> <<Min(adjusted_growth_days, days_elapsed),
                                     adjusted_growth_days>>,
              days_to_harvest |-> Max(0, adjusted_growth_days - days_elapsed),
              health_score |-> health_score,
              stress_factors |-> [water |-> water_stress, nutrient |-> nutrient_stress,
                                  temperature |-> temp_stress, humidity |-> humidity_stress]]

-----------------------------------------------------------------------------
(* Loops over a list of placements *)

RECURSIVE PairsFrom(_, _, _)
\* the index pairs (i, j), i < j, in the order of the nested loops
\*   for i, placement1 in enumerate(l): for j, placement2 in enumerate(l[i + 1:], i + 1)
PairsFrom(i, j, n) ==
    IF i > n THEN <<>>
    ELSE IF j > n THEN PairsFrom(i + 1, i + 2, n)
    ELSE <<(<<i, j>>)>> \o PairsFrom(i, j + 1, n)

Pairs(n) == PairsFrom(1, 2, n)

RECURSIVE SumSeq(_)
SumSeq(s) == IF s = <<>> THEN 0 ELSE Head(s) + SumSeq(Tail(s))

RECURSIVE FilterSeq(_, _)
\* the elements of s whose flag in keep is TRUE, in order
FilterSeq(s, keep) ==
    IF s = <<>> THEN <<>>
    ELSE (IF Head(keep) THEN <<Head(s)>> ELSE <<>>) \o FilterSeq(Tail(s), Tail(keep))

\* "name in incompatible_plants", either way round
Incompatible(p1, p2) ==
    \/ p2.plant_specs.name \in p1.plant_specs.incompatible_plants
    \/ p1.plant_specs.name \in p2.plant_specs.incompatible_plants

\* min_spacing of a pair: the spacing of the FIRST placement of the pair
MinSpacing10(p1) == OptimalSpacing10(p1.plant_specs, SoilAssumed)

\* distance < min_spacing
TooClose(p1, p2) == 100 * Dist2(p1, p2) < MinSpacing10(p1) * MinSpacing10(p1)

-----------------------------------------------------------------------------
(* PlacementOptimizer._calculate_fitness *)

SpacingPenalty(individual) ==
    LET ps == Pairs(Len(individual))
    IN  SumSeq([k \in 1..Len(ps) |->
                 LET p1 == individual[ps[k][1]]
                     p2 == individual[ps[k][2]]
                 IN  IF TooClose(p1, p2)
                     THEN MinSpacing10(p1) - Distance10(p1, p2)
                     ELSE 0])

\* the compatibility penalty taken at the detector's 2.0 threshold
CompatibilityPenaltyWide(individual) ==
    LET ps == Pairs(Len(individual))
    IN  SumSeq([k \in 1..Len(ps) |->
                 LET p1 == individual[ps[k][1]]
                     p2 == individual[ps[k][2]]
                 IN  IF Incompatible(p1, p2)
                        /\ Dist2(p1, p2) < DetCompatDist * DetCompatDist
                     THEN CompatPenalty
                     ELSE 0])

CompatibilityPenalty(individual) ==
    LET ps == Pairs(Len(individual))
    IN  SumSeq([k \in 1..Len(ps) |->
                 LET p1 == individual[ps[k][1]]
                     p2 == individual[ps[k][2]]
                 IN  IF Incompatible(p1, p2)
                        /\ Dist2(p1, p2) < FitCompatDist * FitCompatDist
                     THEN CompatPenalty
                     ELSE 0])

ZonePenaltyOf(individual, zones) ==
    SumSeq([k \in 1..Len(individual) |->
             IF ~InAnyZone(individual[k], zones) THEN ZonePenalty ELSE 0])

CalculateFitness(individual, zones) ==
    IF individual = <<>> THEN NegInf
    ELSE LET total_penalty == SpacingPenalty(individual)
                              + CompatibilityPenalty(individual)
                              + ZonePenaltyOf(individual, zones)
             base_fitness == Len(individual) * BasePoints
         IN  base_fitness - total_penalty

-----------------------------------------------------------------------------
(* ConflictDetector *)

SpacingViolations(pl) ==
    LET ps == Pairs(Len(pl))
        rec(k) == LET p1 == pl[ps[k][1]]
                      p2 == pl[ps[k][2]]
                  IN  [plant1 |-> p1.plant_id, plant2 |-> p2.plant_id,
                       current_distance |-> Distance10(p1, p2),
                       required_distance |-> MinSpacing10(p1),
                       severity |-> IF 400 * Dist2(p1, p2)
                                        < MinSpacing10(p1) * MinSpacing10(p1)
                                    THEN "high" ELSE "medium"]
    IN  FilterSeq([k \in 1..Len(ps) |-> rec(k)],
                  [k \in 1..Len(ps) |-> TooClose(pl[ps[k][1]], pl[ps[k][2]])])

CompatibilityViolations(pl) ==
    LET ps == Pairs(Len(pl))
        rec(k) == LET p1 == pl[ps[k][1]]
                      p2 == pl[ps[k][2]]
                  IN  [plant1 |-> p1.plant_id, plant2 |-> p2.plant_id,
                       distance |-> Distance10(p1, p2), severity |-> "high"]
    IN  FilterSeq([k \in 1..Len(ps) |-> rec(k)],
                  [k \in 1..Len(ps) |->
                     /\ Incompatible(pl[ps[k][1]], pl[ps[k][2]])
                     /\ Dist2(pl[ps[k][1]], pl[ps[k][2]]) < DetCompatDist * DetCompatDist])

ZoneViolations(pl, zones) ==
    FilterSeq([k \in 1..Len(pl) |->
                 [plant_id |-> pl[k].plant_id,
                  position |-> <<pl[k].x, pl[k].y>>, severity |-> "high"]],
              [k \in 1..Len(pl) |-> ~InAnyZone(pl[k], zones)])

\* _detect_water_conflicts: for placement i, the high-water placements
\* AFTER i in the list that are closer than 1.0
HighWaterAfter(pl, i) ==
    LET n == Len(pl)
        later == [k \in 1..(n - i) |-> pl[i + k]]
    IN  FilterSeq([k \in 1..(n - i) |-> later[k].plant_id],
                  [k \in 1..(n - i) |->
                     /\ Dist2(pl[i], later[k]) < 100 * 100
                     /\ pl[i].plant_specs.water_need = "high"
                     /\ later[k].plant_specs.water_need = "high"])

DetectWaterConflicts(pl) ==
    FilterSeq([i \in 1..Len(pl) |->
                 [type |-> "water_competition",
                  plants |-> <<pl[i].plant_id>> \o HighWaterAfter(pl, i),
                  severity |-> "medium"]],
              [i \in 1..Len(pl) |-> Len(HighWaterAfter(pl, i)) > 2])

DetectConflicts(pl, zones) ==
    [spacing_violations |-> SpacingViolations(pl),
     compatibility_violations |-> CompatibilityViolations(pl),
     zone_violations |-> ZoneViolations(pl, zones),
     resource_conflicts |-> DetectWaterConflicts(pl)]

-----------------------------------------------------------------------------
(* Dictionaries built in a loop *)

\* A dict filled key by key is the sequence of its <<key, value>> items in
\* insertion order; d[key] = value replaces the value of a key already there.
DictPut(d, key, value) ==
    IF \E k \in 1..Len(d) : d[k][1] = key
    THEN [k \in 1..Len(d) |-> IF d[k][1] = key THEN <<key, value>> ELSE d[k]]
    ELSE Append(d, <<key, value>>)

Items(d) == {d[k] : k \in 1..Len(d)}

\* list(d.values())
Values(d) == [k \in 1..Len(d) |-> d[k][2]]

Keys(d) == [k \in 1..Len(d) |-> d[k][1]]

RECURSIVE MaxSeq(_)
MaxSeq(s) == IF Len(s) = 1 THEN s[1] ELSE Max(Head(s), MaxSeq(Tail(s)))

RECURSIVE MinSeq(_)
MinSeq(s) == IF Len(s) = 1 THEN s[1] ELSE Min(Head(s), MinSeq(Tail(s)))

-----------------------------------------------------------------------------
(* AgronomicCalculator.calculate_solar_exposure *)

SolarNoZone == 500           \* return 0.5, in thousandths
SeasonalDefault == 10        \* sun_data.get('seasonal_factor', 1.0), in tenths

base_exposures == {<<"full_sun", 1000>>, <<"partial_sun", 600>>, <<"shade", 300>>}

\* the score in thousandths; slope_factor = 1 + slope / 90 * 0.2 is
\* (450 + slope) / 450
SolarExposure(plant_placement, zones, sun_data) ==
    IF ~InAnyZone(plant_placement, zones) THEN SolarNoZone
    ELSE LET first == CHOOSE k \in 1..Len(zones) :
                         /\ IsInZone(plant_placement, zones[k])
                         /\ \A j \in 1..(k - 1) : ~IsInZone(plant_placement, zones[j])
             zone == zones[first]
             base_exposure == DictGet(base_exposures, zone.sun_exposure, SolarNoZone)
             seasonal_factor == DictGet(sun_data, "seasonal_factor", SeasonalDefault)
             exposure_score == (base_exposure * seasonal_factor * (450 + zone.slope))
                                   \div 4500
         IN  Min(1000, Max(0, exposure_score))

-----------------------------------------------------------------------------
(* IrrigationPlanner *)

SoilMoistureAssumed == 50    \* "0.5,  # Default soil moisture", in hundredths
RadiusBuffer == 1000         \* "max_distance + 1.0", in millimetres

\* the keys of water_groups, in the order of the literal
WaterTiers == <<"low", "medium", "high">>

\* a grouping loop that files every placement under "medium"
WaterGroupAllMedium(pl, tier) ==
    IF tier = "medium" THEN pl ELSE <<>>

\* water_groups[tier] after the grouping loop
WaterGroup(pl, tier) ==
    FilterSeq(pl, [k \in 1..Len(pl) |-> pl[k].plant_specs.water_need = tier])

\* _create_irrigation_zone for a non-empty group: center and radius in mm
CreateIrrigationZone(group, water_need) ==
    LET n == Len(group)
        center_x == (10 * SumSeq([k \in 1..n |-> group[k].x])) \div n
        center_y == (10 * SumSeq([k \in 1..n |-> group[k].y])) \div n
        dist(p) == ISqrt((10 * p.x - center_x) * (10 * p.x - center_x)
                         + (10 * p.y - center_y) * (10 * p.y - center_y))
        max_distance == MaxSeq([k \in 1..n |-> dist(group[k])])
    IN  [plants |-> group, center |-> <<center_x, center_y>>,
         radius |-> max_distance + RadiusBuffer, water_need |-> water_need]

\* combined_radius - distance where two zones overlap, else 0 (mm)
Overlap(zone1, zone2) ==
    LET dx == zone1.center[1] - zone2.center[1]
        dy == zone1.center[2] - zone2.center[2]
        combined_radius == zone1.radius + zone2.radius
    IN  IF dx * dx + dy * dy < combined_radius * combined_radius
        THEN combined_radius - ISqrt(dx * dx + dy * dy)
        ELSE 0

\* _calculate_irrigation_efficiency, in thousandths
IrrigationEfficiency(zones, water_needs) ==
    IF zones = <<>> THEN 0
    ELSE LET zone_list == Values(zones)
             ps == Pairs(Len(zone_list))
             total_overlap == SumSeq([k \in 1..Len(ps) |->
                                        Overlap(zone_list[ps[k][1]], zone_list[ps[k][2]])])
             overlap_penalty == total_overlap \div 10
             water_balance ==
                 IF water_needs # <<>>
                 THEN 1000 - (MaxSeq(Values(water_needs)) - MinSeq(Values(water_needs)))
                                 \div (WaterUnit \div 100)
                 ELSE 1000
         IN  Max(0, Min(1000, water_balance - overlap_penalty))

\* calculate_irrigation_zones
IrrigationZones(pl, gzones, water_constraints) ==
    LET filled == FilterSeq(WaterTiers,
                            [t \in 1..Len(WaterTiers) |-> WaterGroup(pl, WaterTiers[t]) # <<>>])
        zones == [t \in 1..Len(filled) |->
                    <<filled[t], CreateIrrigationZone(WaterGroup(pl, filled[t]), filled[t])>>]
        weather == DictGet(water_constraints, "weather", {})
        daily_water(zone_data) ==
            SumSeq([k \in 1..Len(zone_data.plants) |->
                      WaterNeeds(zone_data.plants[k].plant_specs, weather,
                                 SoilMoistureAssumed, zone_data.plants[k].current_stage)])
        total_water_needs == [t \in 1..Len(zones) |-> <<zones[t][1], daily_water(zones[t][2])>>]
    IN  [zones |-> zones,
         total_water_needs |-> total_water_needs,
         efficiency_score |-> IrrigationEfficiency(zones, total_water_needs)]

-----------------------------------------------------------------------------
(* PlacementOptimizer: inputs of a run and the random draws *)

PopSizes == {TournamentSize, TournamentSize + 1}

\* the argument lists the optimizer is run on
PlantLists == {<<>>, <<Tomato>>, <<Tomato, Basil>>, <<Tomato, Tomato>>}
ZoneLists == {<<>>, <<Zone10>>}

\* random.uniform(0, radius): sampled distances, cm
DrawDistances == {40, 150}
\* random.uniform(0, 2 * math.pi): sampled angles as <<cos, sin>>
DrawAngles == {<<1, 0>>}
\* random.randint(1000, 9999): sampled suffixes of plant_id
DrawSuffixes == {1000}
\* random.uniform(-0.5, 0.5): sampled offsets, cm
MutOffsets == {-50, 50}

\* the draws of one _create_random_placement call that the zones admit:
\* zone = random.choice(garden_zones), distance <= radius = sqrt(area / pi)
Draws(zones) ==
    {d \in [zone : 1..Len(zones), distance : DrawDistances,
            angle : DrawAngles, suffix : DrawSuffixes] :
        d.distance * d.distance * PiNum <= zones[d.zone].area * 10000 * PiDen}

\* a placement drawn around the origin instead of the zone's centre
CreateRandomPlacementAtOrigin(plant_specs, zones, d) ==
    LET x == d.distance * d.angle[1]
        y == d.distance * d.angle[2]
    IN  PlantPlacement(<<plant_specs.name, d.suffix>>, plant_specs, x, y, 0, "seed")

\* _create_random_placement with its random draws made explicit
CreateRandomPlacement(plant_specs, zones, d) ==
    LET zone == zones[d.zone]
        x == zone.coordinates[1] + d.distance * d.angle[1]
        y == zone.coordinates[2] + d.distance * d.angle[2]
    IN  PlantPlacement(<<plant_specs.name, d.suffix>>, plant_specs, x, y, 0, "seed")

\* an individual as a list of placement values
Deref(h, individual) == [i \in 1..Len(individual) |-> h[individual[i]]]

Fitness(h, individual, zones) == CalculateFitness(Deref(h, individual), zones)

-----------------------------------------------------------------------------
(* optimize_placement_genetic, step by step *)

\* the configurations explored: the larger population size only with the
\* empty plant list
Runs ==
    {r \in [plants : PlantLists, zones : ZoneLists, population_size : PopSizes,
            generations : 1..MaxGen] :
        r.population_size > TournamentSize => r.plants = <<>>}

GAInit ==
    /\ \E r \in Runs :
          /\ plants = r.plants
          /\ garden_zones = r.zones
          /\ population_size = r.population_size
          /\ generations = r.generations
    /\ heap = <<>>
    /\ population = <<>>
    /\ fitness_scores = <<>>
    /\ best_fitness = NegInf
    /\ best_solution = None
    /\ new_population = <<>>
    /\ generation = 0
    /\ pairing = 0
    /\ child1 = <<>>
    /\ child2 = <<>>
    /\ moves = 0
    /\ pc = "start"
    /\ result = None
    /\ error = "none"

Raise(exc) ==
    /\ pc' = "raised"
    /\ error' = exc

\* a constructor call that hands out the identity of an object still in use
FreshBaseReusing(h) == 0

\* PlantPlacement(...) constructs a new object: the new objects of a call get
\* the identities after those of all objects that exist
FreshBase(h) == Len(h)

\* _initialize_population: population_size individuals, one fresh placement
\* per profile in input order.  random.choice on an empty zone list raises.
InitializePopulation ==
    /\ UNCHANGED notGaVars
    /\ pc = "start"
    /\ LET n == Len(plants)
           P == population_size
           base == FreshBase(heap)
       IN  IF n > 0 /\ garden_zones = <<>>
           THEN /\ Raise("IndexError")
                /\ UNCHANGED <<heap, population, best_fitness, best_solution>>
           ELSE /\ \E draw \in [1..(P * n) -> Draws(garden_zones)] :
                      heap' = [o \in 1..(base + P * n) |->
                                 IF o <= base THEN heap[o]
                                 ELSE CreateRandomPlacement(
                                          plants[((o - base - 1) % n) + 1],
                                          garden_zones, draw[o - base])]
                /\ population' = [m \in 1..P |->
                                    [i \in 1..n |-> base + (m - 1) * n + i]]
                /\ best_fitness' = NegInf
                /\ best_solution' = None
                /\ pc' = "evaluate"
                /\ UNCHANGED error
    /\ UNCHANGED <<plants, garden_zones, population_size, generations,
                   fitness_scores, new_population, generation, pairing,
                   child1, child2, moves, result>>

RECURSIVE EvalFrom(_, _, _, _)
\* the fitness loop from individual k on: <<scores so far, best_fitness, best_solution>>
EvalFrom(k, scores, bf, bs) ==
    IF k > Len(population) THEN <<scores, bf, bs>>
    ELSE LET fitness == Fitness(heap, population[k], garden_zones)
         IN  IF fitness > bf
             THEN EvalFrom(k + 1, Append(scores, fitness), fitness, population[k])
             ELSE EvalFrom(k + 1, Append(scores, fitness), bf, bs)

\* first half of a generation: score every individual, track the best
\* (best_solution = individual.copy(): a new list of the SAME placement objects)
Evaluate ==
    /\ UNCHANGED notGaVars
    /\ pc = "evaluate"
    /\ LET r == EvalFrom(1, <<>>, best_fitness, best_solution)
       IN  /\ fitness_scores' = r[1]
           /\ best_fitness' = r[2]
           /\ best_solution' = r[3]
    /\ new_population' = <<>>
    /\ pairing' = 0
    /\ pc' = "pair"
    /\ UNCHANGED <<plants, garden_zones, population_size, generations, heap,
                   population, generation, child1, child2, moves, result, error>>

\* random.sample(range(n), 3): the lists of 3 distinct indices
Samples(n) ==
    {s \in [1..TournamentSize -> 1..n] :
        \A a, b \in 1..TournamentSize : a # b => s[a] # s[b]}

\* _tournament_selection for one sample: the first sampled index holding the
\* maximum of the sampled fitness values
Winner(sample, scores) ==
    LET best == CHOOSE a \in 1..TournamentSize :
                    /\ \A b \in 1..TournamentSize : scores[sample[b]] <= scores[sample[a]]
                    /\ \A b \in 1..(a - 1) : scores[sample[b]] < scores[sample[a]]
    IN  sample[best]

TournamentWinners(n, scores) == {Winner(s, scores) : s \in Samples(n)}

\* a cut that loses the placement right after the cut point
Crossover1Dropping(parent1, parent2, point) ==
    SubSeq(parent1, 1, point) \o SubSeq(parent2, point + 2, Len(parent2))

\* _crossover at a given cut point
Crossover1(parent1, parent2, point) ==
    SubSeq(parent1, 1, point) \o SubSeq(parent2, point + 1, Len(parent2))

\* a second child that is a plain copy of parent2
Crossover2Cloning(parent1, parent2, point) == parent2

Crossover2(parent1, parent2, point) ==
    SubSeq(parent2, 1, point) \o SubSeq(parent1, point + 1, Len(parent1))

\* one pairing, up to the children: two tournaments, then crossover with
\* probability crossover_rate, else copies of the parents.
\* random.sample raises when the population has fewer than 3 individuals;
\* random.randint(1, len - 1) raises when len <= 1.
Pair ==
    /\ UNCHANGED notGaVars
    /\ pc = "pair"
    /\ IF Len(population) < TournamentSize
       THEN /\ Raise("ValueError")
            /\ UNCHANGED <<child1, child2>>
       ELSE \E w1, w2 \in TournamentWinners(Len(population), fitness_scores) :
              LET parent1 == population[w1]
                  parent2 == population[w2]
              IN  \/ \* random.random() < crossover_rate
                     IF Len(parent1) # Len(parent2)
                     THEN /\ child1' = parent1
                          /\ child2' = parent2
                          /\ pc' = "mutate1"
                          /\ UNCHANGED error
                     ELSE IF Len(parent1) - 1 < 1
                     THEN /\ Raise("ValueError")
                          /\ UNCHANGED <<child1, child2>>
                     ELSE \E point \in 1..(Len(parent1) - 1) :
                            /\ child1' = Crossover1(parent1, parent2, point)
                            /\ child2' = Crossover2(parent1, parent2, point)
                            /\ pc' = "mutate1"
                            /\ UNCHANGED error
                  \/ \* otherwise: parent1.copy(), parent2.copy()
                     /\ child1' = parent1
                     /\ child2' = parent2
                     /\ pc' = "mutate1"
                     /\ UNCHANGED error
    /\ UNCHANGED <<plants, garden_zones, population_size, generations, heap,
                   population, fitness_scores, best_fitness, best_solution,
                   new_population, generation, pairing, moves, result>>

\* the draws of one _mutate call: per placement, whether random.random() < 0.1
\* and the two offsets
MoveChoices ==
    {[move |-> FALSE, dx |-> 0, dy |-> 0]}
    \cup [move : {TRUE}, dx : MutOffsets, dy : MutOffsets]

NumMoved(choice) == Cardinality({i \in DOMAIN choice : choice[i].move})

RECURSIVE MutateFrom(_, _, _, _)
\* the loop of _mutate from index i on: mutated[i].x += dx; mutated[i].y += dy
\* acts on the placement OBJECT that the list entry refers to
MutateFrom(h, mutated, choice, i) ==
    IF i > Len(mutated) THEN h
    ELSE IF choice[i].move
    THEN MutateFrom([h EXCEPT ![mutated[i]].x = @ + choice[i].dx,
                              ![mutated[i]].y = @ + choice[i].dy],
                    mutated, choice, i + 1)
    ELSE MutateFrom(h, mutated, choice, i + 1)

\* _mutate: the returned list is individual.copy(), the same object ids
Mutate(h, individual, choice) == MutateFrom(h, individual, choice, 1)

MutateChild1 ==
    /\ UNCHANGED notGaVars
    /\ pc = "mutate1"
    /\ \/ \* random.random() < mutation_rate: child1 = self._mutate(child1, ...)
          \E choice \in [1..Len(child1) -> MoveChoices] :
             /\ moves + NumMoved(choice) <= MaxMoves
             /\ heap' = Mutate(heap, child1, choice)
             /\ moves' = moves + NumMoved(choice)
       \/ UNCHANGED <<heap, moves>>
    /\ pc' = "mutate2"
    /\ UNCHANGED <<plants, garden_zones, population_size, generations,
                   population, fitness_scores, best_fitness, best_solution,
                   new_population, generation, pairing, child1, child2,
                   result, error>>

\* the second mutation and the end of the loop body:
\* new_population.extend([child1, child2])
MutateChild2 ==
    /\ UNCHANGED notGaVars
    /\ pc = "mutate2"
    /\ \/ \E choice \in [1..Len(child2) -> MoveChoices] :
             /\ moves + NumMoved(choice) <= MaxMoves
             /\ heap' = Mutate(heap, child2, choice)
             /\ moves' = moves + NumMoved(choice)
       \/ UNCHANGED <<heap, moves>>
    /\ new_population' = new_population \o <<child1, child2>>
    /\ pairing' = pairing + 1
    /\ pc' = IF pairing + 1 < population_size \div 2 THEN "pair" ELSE "endgen"
    /\ UNCHANGED <<plants, garden_zones, population_size, generations,
                   population, fitness_scores, best_fitness, best_solution,
                   generation, child1, child2, result, error>>

\* population = new_population[:self.population_size]; next generation
EndGeneration ==
    /\ UNCHANGED notGaVars
    /\ pc = "endgen"
    /\ population' = SubSeq(new_population, 1,
                            Min(population_size, Len(new_population)))
    /\ generation' = generation + 1
    /\ pc' = IF generation + 1 < generations THEN "evaluate" ELSE "return"
    /\ UNCHANGED <<plants, garden_zones, population_size, generations, heap,
                   fitness_scores, best_fitness, best_solution, new_population,
                   pairing, child1, child2, moves, result, error>>

\* return best_solution
Return ==
    /\ UNCHANGED notGaVars
    /\ pc = "return"
    /\ result' = best_solution
    /\ pc' = "done"
    /\ UNCHANGED <<plants, garden_zones, population_size, generations, heap,
                   population, fitness_scores, best_fitness, best_solution,
                   new_population, generation, pairing, child1, child2,
                   moves, error>>

GANext ==
    \/ InitializePopulation
    \/ Evaluate
    \/ Pair
    \/ MutateChild1
    \/ MutateChild2
    \/ EndGeneration
    \/ Return

-----------------------------------------------------------------------------
(* PlantSpecs construction and the memoized calculate_optimal_spacing *)

MaxSoil == 11        \* soil qualities explored: -1/10 .. MaxSoil/10
MaxCalls == 2        \* cache misses of calculate_optimal_spacing in one run

ProfileNames == {"Tomato", "Basil"}
SpacingValues == {20, 30}
SoilValues == (-1)..MaxSoil

NoCall == [called |-> FALSE, soil |-> 0, value |-> 0, hit |-> FALSE]

CalcInit ==
    /\ profile = Tomato
    /\ constructed = FALSE
    /\ cache = {}
    /\ spacing_ret = NoCall

\* PlantSpecs(name="Tomato", spacing_min=..., spacing_optimal=..., ...)
ConstructPlantSpecs ==
    /\ UNCHANGED notCalcVars
    /\ ~constructed
    /\ \E smin, sopt \in SpacingValues, comp, incomp \in SUBSET ProfileNames :
          profile' = PlantSpecs("Tomato", smin, sopt, "high", 80, 50, 30, comp, incomp)
    /\ constructed' = TRUE
    /\ UNCHANGED <<cache, spacing_ret>>

\* calculate_optimal_spacing(profile, soil) through @lru_cache: a hit returns
\* the stored value, a miss evaluates the body and stores the value
CallOptimalSpacing ==
    /\ UNCHANGED notCalcVars
    /\ constructed
    /\ \E soil \in SoilValues :
          LET hits == {e \in cache : e.plant_specs = profile /\ e.soil = soil}
          IN  IF hits # {}
              THEN /\ spacing_ret' = [called |-> TRUE, soil |-> soil, hit |-> TRUE,
                                      value |-> (CHOOSE e \in hits : TRUE).value]
                   /\ UNCHANGED cache
              ELSE /\ Cardinality(cache) < MaxCalls
                   /\ spacing_ret' = [called |-> TRUE, soil |-> soil, hit |-> FALSE,
                                      value |-> OptimalSpacing10(profile, soil)]
                   /\ cache' = cache \cup
                                 {[plant_specs |-> profile, soil |-> soil,
                                   value |-> OptimalSpacing10(profile, soil)]}
    /\ UNCHANGED <<profile, constructed>>

CalcNext ==
    \/ ConstructPlantSpecs
    \/ CallOptimalSpacing

-----------------------------------------------------------------------------
(* _calculate_fitness and detect_conflicts applied to a given arrangement *)

\* the placements a caller may hand in: <<profile, x, y>>
FitPool ==
    {<<Tomato, 0, 0>>, <<Tomato, 40, 0>>, <<Tomato, 150, 0>>,
     <<Potato, 0, 0>>, <<Potato, 40, 0>>, <<Potato, 150, 0>>,
     <<Basil, 40, 0>>, <<Basil, 200, 0>>}

RECURSIVE SeqsUpTo(_, _)
SeqsUpTo(S, n) ==
    IF n = 0 THEN {<<>>}
    ELSE LET shorter == SeqsUpTo(S, n - 1)
         IN  shorter \cup {Append(q, e) : q \in shorter, e \in S}

Arrangement(picks) ==
    [i \in 1..Len(picks) |->
       PlantPlacement(<<picks[i][1].name, 1000 + i>>, picks[i][1],
                      picks[i][2], picks[i][3], 0, "seed")]

NoConflictsCall == [called |-> FALSE, arg |-> <<>>, value |-> DetectConflicts(<<>>, <<>>)]

FitInit ==
    /\ placements \in {Arrangement(picks) : picks \in SeqsUpTo(FitPool, MaxLen)}
    /\ fit_zones = <<Zone10>>
    /\ fitness_ret = <<>>
    /\ conflicts_ret = NoConflictsCall
    /\ conflicts_prev = NoConflictsCall

\* fitness = await self._calculate_fitness(placements, zones, {}); the last
\* two calls are kept
CallCalculateFitness ==
    /\ UNCHANGED notFitVars
    /\ fitness_ret' =
         LET call == [arg |-> placements,
                      value |-> CalculateFitness(placements, fit_zones)]
         IN  IF fitness_ret = <<>> THEN <<call>>
             ELSE <<fitness_ret[Len(fitness_ret)], call>>
    /\ UNCHANGED <<placements, fit_zones, conflicts_ret, conflicts_prev>>

\* a detector that consumes the list it scans
CallDetectConflictsConsuming ==
    /\ UNCHANGED notFitVars
    /\ conflicts_ret' = [called |-> TRUE, arg |-> placements,
                         value |-> DetectConflicts(placements, fit_zones)]
    /\ conflicts_prev' = conflicts_ret
    /\ placements' = IF placements = <<>> THEN <<>> ELSE Tail(placements)
    /\ UNCHANGED <<fit_zones, fitness_ret>>

\* conflicts = await detector.detect_conflicts(placements, zones): the
\* report is built in a dictionary local to the call, and the call assigns
\* to no placement, no zone and no list it was given
CallDetectConflicts ==
    /\ UNCHANGED notFitVars
    /\ conflicts_ret' = [called |-> TRUE, arg |-> placements,
                         value |-> DetectConflicts(placements, fit_zones)]
    /\ conflicts_prev' = conflicts_ret
    /\ UNCHANGED <<placements, fit_zones, fitness_ret>>

\* a placement with the profile and the position of placements[k]
Duplicate(pl, k) ==
    PlantPlacement(<<pl[k].plant_specs.name, 1000 + Len(pl) + 1>>,
                   pl[k].plant_specs, pl[k].x, pl[k].y, 0, "seed")

\* the caller appends a duplicate-position placement to the arrangement
AppendDuplicate ==
    /\ UNCHANGED notFitVars
    /\ Len(placements) <= MaxLen
    /\ Len(fitness_ret) = 1
    /\ fitness_ret[1].arg = placements
    /\ \E k \in 1..Len(placements) :
          placements' = Append(placements, Duplicate(placements, k))
    /\ UNCHANGED <<fit_zones, fitness_ret, conflicts_ret, conflicts_prev>>

FitNext ==
    \/ CallCalculateFitness
    \/ CallDetectConflicts
    \/ AppendDuplicate

-----------------------------------------------------------------------------
(* calculate_water_needs called by a client *)

WaterProfiles == {Tomato, Basil, Thyme}

\* weather_data: without 'et0', or with et0 = -1.0, 0.0, 2.0, 5.0, 8.0 mm/day
WeatherData == {{}} \cup {{<<"et0", e>>} : e \in {-10, 0, 20, 50, 80}}

\* soil moisture 0.0, 0.10, 0.30, 0.60
SoilMoistures == {0, 10, 30, 60}

StageSet == {GrowthStages[k] : k \in 1..Len(GrowthStages)}

WaterCall(plant_specs, weather_data, soil_moisture, growth_stage) ==
    [plant_specs |-> plant_specs, weather_data |-> weather_data,
     soil_moisture |-> soil_moisture, growth_stage |-> growth_stage,
     value |-> WaterNeeds(plant_specs, weather_data, soil_moisture, growth_stage)]

\* the first call of a series:
\* calculator.calculate_water_needs(specs, weather, moisture, stage)
CallWaterNeeds ==
    /\ UNCHANGED notWaterVars
    /\ water_ret = <<>>
    /\ \E plant_specs \in WaterProfiles, weather_data \in WeatherData,
          soil_moisture \in SoilMoistures, growth_stage \in StageSet :
          water_ret' = <<WaterCall(plant_specs, weather_data, soil_moisture, growth_stage)>>

\* the next call of the series: the same profile, moisture and stage under
\* any weather; water_ret keeps the last two calls
CallWaterNeedsOtherWeather ==
    /\ UNCHANGED notWaterVars
    /\ water_ret # <<>>
    /\ LET last == water_ret[Len(water_ret)]
       IN  \E weather_data \in WeatherData :
              water_ret' = <<last, WaterCall(last.plant_specs, weather_data,
                                            last.soil_moisture, last.growth_stage)>>

WaterNext ==
    \/ CallWaterNeeds
    \/ CallWaterNeedsOtherWeather

-----------------------------------------------------------------------------
(* calculate_growth_prediction called by a client *)

\* profiles that mature in 80, 60, 1 and 0 days
Cress == PlantSpecs("Cress", 2, 5, "medium", 1, 5, 1, {}, {})
Sprout == PlantSpecs("Sprout", 2, 5, "low", 0, 5, 1, {}, {})
GrowthProfiles == {Tomato, Basil, Cress, Sprout}

Today == 100                                  \* the day of datetime.now()
PlantedDates == {0, 60, 100, 110}             \* 110: planted in the future
WaterStresses == {-30, 0, 10}                 \* -3.0, 0.0, 1.0
NutrientStresses == {0, 10, 50}
TempStresses == {0, 20}
HumidityStresses == {-20, 30}

\* environmental_factors with and without each of the two keys
EnvironmentalFactors ==
    {t \cup h : t \in {{}} \cup {{<<"temperature_stress", v>>} : v \in TempStresses},
                h \in {{}} \cup {{<<"humidity_stress", v>>} : v \in HumidityStresses}}

\* PlantPlacement(..., water_stress=ws, nutrient_stress=ns)
Stressed(placement, ws, ns) ==
    [placement EXCEPT !.water_stress = ws, !.nutrient_stress = ns]

\* prediction = calculator.calculate_growth_prediction(specs, placement, factors)
CallGrowthPrediction ==
    /\ UNCHANGED notGrowthVars
    /\ ~growth_ret.called
    /\ \E plant_specs \in GrowthProfiles, planted \in PlantedDates,
          ws \in WaterStresses, ns \in NutrientStresses,
          environmental_factors \in EnvironmentalFactors :
          LET placement == Stressed(PlantPlacement(<<plant_specs.name, 1001>>, plant_specs,
                                                   0, 0, planted, "seed"), ws, ns)
          IN  growth_ret' =
                [called |-> TRUE, plant_specs |-> plant_specs, placement |-> placement,
                 environmental_factors |-> environmental_factors, now |-> Today,
                 result |-> GrowthPrediction(plant_specs, placement,
                                             environmental_factors, Today)]

GrowthNext == CallGrowthPrediction

-----------------------------------------------------------------------------
(* AgronomicEngine *)

\* zone['area'] if isinstance(zone, dict) and 'area' in zone else 0
AreaOrZero(zone) == IF "area" \in DOMAIN zone THEN zone.area ELSE 0

RECURSIVE FillDict(_, _, _)
\* for placement in placements: d[placement.plant_id] = value of placement,
\* with the values of the placements given in list order
FillDict(d, pl, values) ==
    IF pl = <<>> THEN d
    ELSE FillDict(DictPut(d, Head(pl).plant_id, Head(values)), Tail(pl), Tail(values))

\* _calculate_efficiency_metrics: ratios and penalty in thousandths, score
\* in thousandths of a point
EfficiencyMetrics(pl, water_analysis, solar_analysis, conflicts) ==
    IF pl = <<>> THEN [overall_score |-> 0]
    ELSE LET irrigation == Values(water_analysis.zones)
             summed == SumSeq([k \in 1..Len(irrigation) |-> AreaOrZero(irrigation[k])])
             total_area == IF summed <= 0 THEN 1 ELSE summed
             space_utilization == (1000 * Len(pl)) \div total_area
             water_efficiency == water_analysis.efficiency_score
             avg_solar_score == IF solar_analysis # <<>>
                                THEN SumSeq(Values(solar_analysis)) \div Len(solar_analysis)
                                ELSE 0
             conflict_penalty == Len(conflicts.spacing_violations) * 100
                                 + Len(conflicts.compatibility_violations) * 200
                                 + Len(conflicts.zone_violations) * 300
             overall_score == space_utilization * 25 + water_efficiency * 25
                              + avg_solar_score * 25
                              + (1000 - Min(conflict_penalty, 1000)) * 25
         IN  [overall_score |-> Min(100000, Max(0, overall_score)),
              space_utilization |-> space_utilization,
              water_efficiency |-> water_efficiency,
              solar_efficiency |-> avg_solar_score,
              conflict_penalty |-> conflict_penalty]

\* calculate_comprehensive_analysis (without the timestamp)
ComprehensiveAnalysis(pl, zones, environmental_data, now) ==
    LET water_analysis == IrrigationZones(pl, zones, environmental_data)
        sun_data == DictGet(environmental_data, "sun_data", {})
        solar(p) == SolarExposure(p, zones, sun_data)
        solar_analysis == FillDict(<<>>, pl, [k \in 1..Len(pl) |-> solar(pl[k])])
        prediction(p) == GrowthPrediction(p.plant_specs, p, environmental_data, now)
        growth_predictions == FillDict(<<>>, pl, [k \in 1..Len(pl) |-> prediction(pl[k])])
        conflicts == DetectConflicts(pl, zones)
    IN  IF \E k \in 1..Len(pl) : prediction(pl[k]).outcome = "ZeroDivisionError"
        THEN [outcome |-> "ZeroDivisionError"]
        ELSE [outcome |-> "returned",
              water_analysis |-> water_analysis,
              solar_analysis |-> solar_analysis,
              growth_predictions |-> growth_predictions,
              conflicts |-> conflicts,
              total_predicted_yield |->
                  SumSeq([k \in 1..Len(growth_predictions) |->
                            growth_predictions[k][2].predicted_yield]),
              efficiency_metrics |->
                  EfficiencyMetrics(pl, water_analysis, solar_analysis, conflicts)]

\* calculate_incremental_update: the returned dictionary
IncrementalUpdate(current_placements, new_placement, zones, environmental_data, now) ==
    LET updated_placements == current_placements \o <<new_placement>>
        growth == GrowthPrediction(new_placement.plant_specs, new_placement,
                                   environmental_data, now)
    IN  IF growth.outcome = "ZeroDivisionError"
        THEN [outcome |-> "ZeroDivisionError"]
        ELSE [outcome |-> "returned",
              new_plant_analysis |->
                  [water_need |-> WaterNeeds(new_placement.plant_specs,
                                             DictGet(environmental_data, "weather", {}),
                                             SoilMoistureAssumed, new_placement.current_stage),
                   solar_exposure |-> SolarExposure(new_placement, zones,
                                          DictGet(environmental_data, "sun_data", {})),
                   growth_prediction |-> growth],
              conflicts_with_new_plant |-> DetectConflicts(updated_placements, zones),
              updated_irrigation_zones |->
                  IrrigationZones(updated_placements, zones, environmental_data)]

-----------------------------------------------------------------------------
(* The engine called by a client *)

MaxEngLen == 3       \* longest list of placements handed to the engine

Zone5 == GardenZone("z2", 5, "partial_sun", 45, 200, 0)

\* placements of the caller; two of them carry the same plant_id, as two
\* placements built by _create_random_placement do when their random
\* suffixes coincide
EngPool ==
    {PlantPlacement(<<"Tomato", 1000>>, Tomato, 0, 0, 0, "seed"),
     PlantPlacement(<<"Tomato", 1000>>, Tomato, 150, 0, 0, "seed"),
     PlantPlacement(<<"Potato", 1002>>, Potato, 0, 0, 60, "seedling"),
     PlantPlacement(<<"Basil", 1003>>, Basil, 40, 0, 0, "vegetative"),
     PlantPlacement(<<"Thyme", 1004>>, Thyme, 200, 0, 100, "seed")}

EngZoneLists == {<<Zone10>>, <<Zone10, Zone5>>}

\* environmental_data: empty, or with every key the engine reads
EngEnvs ==
    {{},
     {<<"weather", {<<"et0", 20>>}>>, <<"sun_data", {<<"seasonal_factor", 8>>}>>,
      <<"temperature_stress", 10>>, <<"humidity_stress", 2>>}}

EngInit ==
    /\ eng_placements \in SeqsUpTo(EngPool, MaxEngLen)
    /\ eng_zones \in EngZoneLists
    /\ eng_env \in EngEnvs
    /\ eng_ret = [op |-> "none"]

\* report = await engine.calculate_comprehensive_analysis(placements, zones, env)
CallComprehensiveAnalysis ==
    /\ UNCHANGED notEngVars
    /\ eng_ret.op = "none"
    /\ eng_ret' = [op |-> "analysis", placements |-> eng_placements,
                   report |-> ComprehensiveAnalysis(eng_placements, eng_zones,
                                                    eng_env, Today)]
    /\ UNCHANGED <<eng_placements, eng_zones, eng_env>>

\* plan = await engine.irrigation_planner.calculate_irrigation_zones(placements, zones, env)
CallIrrigationZones ==
    /\ UNCHANGED notEngVars
    /\ eng_ret.op = "none"
    /\ eng_ret' = [op |-> "irrigation", placements |-> eng_placements,
                   report |-> IrrigationZones(eng_placements, eng_zones, eng_env)]
    /\ UNCHANGED <<eng_placements, eng_zones, eng_env>>

\* an update that appends to the caller's list: current_placements.append(new)
CallIncrementalUpdateAppending ==
    /\ UNCHANGED notEngVars
    /\ eng_ret.op = "none"
    /\ \E new_placement \in EngPool :
          /\ eng_ret' = [op |-> "update", placements |-> eng_placements,
                         new_placement |-> new_placement,
                         report |-> IncrementalUpdate(eng_placements, new_placement,
                                                      eng_zones, eng_env, Today)]
          /\ eng_placements' = Append(eng_placements, new_placement)
    /\ UNCHANGED <<eng_zones, eng_env>>

\* metrics = await engine.calculate_incremental_update(placements, new, zones, env):
\* updated_placements is a new list, and no placement is assigned to
CallIncrementalUpdate ==
    /\ UNCHANGED notEngVars
    /\ eng_ret.op = "none"
    /\ \E new_placement \in EngPool :
          /\ eng_ret' = [op |-> "update", placements |-> eng_placements,
                         new_placement |-> new_placement,
                         report |-> IncrementalUpdate(eng_placements, new_placement,
                                                      eng_zones, eng_env, Today)]
          /\ eng_placements' = eng_placements
    /\ UNCHANGED <<eng_zones, eng_env>>

EngNext ==
    \/ CallComprehensiveAnalysis
    \/ CallIrrigationZones
    \/ CallIncrementalUpdate

-----------------------------------------------------------------------------
(* _crossover applied to two given parents *)

\* the objects the parents are made of: those of parent1, then those of parent2
CrossObjects == <<1, 2, 3, 4>>

CrossHeap ==
    [o \in 1..Len(CrossObjects) |->
       PlantPlacement(<<"Tomato", 1000 + o>>, Tomato, 40 * o, 0, 0, "seed")]

\* the outcomes of _crossover(parent1, parent2) over the draws of the cut point
Crossover(parent1, parent2) ==
    IF Len(parent1) # Len(parent2)
    THEN {[outcome |-> "returned", child1 |-> parent1, child2 |-> parent2]}
    ELSE IF Len(parent1) - 1 < 1
    THEN {[outcome |-> "ValueError"]}
    ELSE {[outcome |-> "returned",
           child1 |-> Crossover1(parent1, parent2, point),
           child2 |-> Crossover2(parent1, parent2, point)] :
             point \in 1..(Len(parent1) - 1)}

\* the two parents are the two members of population
CrossInit ==
    /\ plants = <<>>
    /\ garden_zones = <<>>
    /\ population_size = TournamentSize
    /\ generations = 1
    /\ heap = CrossHeap
    /\ \E parent1 \in SeqsUpTo({1, 2}, MaxLen), parent2 \in SeqsUpTo({3, 4}, MaxLen) :
          population = <<parent1, parent2>>
    /\ fitness_scores = <<>>
    /\ best_fitness = NegInf
    /\ best_solution = None
    /\ new_population = <<>>
    /\ generation = 0
    /\ pairing = 0
    /\ child1 = <<>>
    /\ child2 = <<>>
    /\ moves = 0
    /\ pc = "crossover"
    /\ result = None
    /\ error = "none"

\* child1, child2 = self._crossover(parent1, parent2)
CallCrossover ==
    /\ UNCHANGED notGaVars
    /\ pc = "crossover"
    /\ \E r \in Crossover(population[1], population[2]) :
          IF r.outcome = "returned"
          THEN /\ child1' = r.child1
               /\ child2' = r.child2
               /\ pc' = "crossed"
               /\ UNCHANGED error
          ELSE /\ Raise(r.outcome)
               /\ UNCHANGED <<child1, child2>>
    /\ UNCHANGED <<plants, garden_zones, population_size, generations, heap,
                   population, fitness_scores, best_fitness, best_solution,
                   new_population, generation, pairing, moves, result>>

-----------------------------------------------------------------------------
(* _initialize_population on gardens of one and of two zones *)

PlaceZoneLists == {<<Zone5>>, <<Zone10, Zone5>>, <<Zone5, Zone10>>}

PlacePlantLists == {<<Tomato>>, <<Tomato, Basil>>}

PlaceInit ==
    /\ plants \in PlacePlantLists
    /\ garden_zones \in PlaceZoneLists
    /\ population_size = TournamentSize
    /\ generations = 1
    /\ heap = <<>>
    /\ population = <<>>
    /\ fitness_scores = <<>>
    /\ best_fitness = NegInf
    /\ best_solution = None
    /\ new_population = <<>>
    /\ generation = 0
    /\ pairing = 0
    /\ child1 = <<>>
    /\ child2 = <<>>
    /\ moves = 0
    /\ pc = "start"
    /\ result = None
    /\ error = "none"

-----------------------------------------------------------------------------
(* Two optimize_placement calls on one AgronomicEngine *)

\* the arguments and local variables of the call that is running
RunLocals ==
    [plants |-> plants, population |-> population, fitness_scores |-> fitness_scores,
     best_fitness |-> best_fitness, best_solution |-> best_solution,
     new_population |-> new_population, generation |-> generation,
     pairing |-> pairing, child1 |-> child1, child2 |-> child2,
     pc |-> pc, result |-> result, error |-> error]

\* a call that has been made and has not run yet
NewCall(plant_list) ==
    [plants |-> plant_list, population |-> <<>>, fitness_scores |-> <<>>,
     best_fitness |-> NegInf, best_solution |-> None, new_population |-> <<>>,
     generation |-> 0, pairing |-> 0, child1 |-> <<>>, child2 |-> <<>>,
     pc |-> "start", result |-> None, error |-> "none"]

Finished(position) == position \in {"done", "raised"}

\* what each coroutine function of the optimizer awaits
AwaitedBy ==
    [f \in {"optimize_placement", "optimize_placement_genetic",
            "_initialize_population", "_create_random_placement",
            "_calculate_fitness"} |->
       CASE f = "optimize_placement" -> {"optimize_placement_genetic"}
         [] f = "optimize_placement_genetic" ->
                {"_initialize_population", "_calculate_fitness"}
         [] f = "_initialize_population" -> {"_create_random_placement"}
         [] OTHER -> {}]

\* the awaitables that hand control back to the event loop
SuspendingAwaitables == {"asyncio.sleep", "loop.run_in_executor", "asyncio.to_thread"}

RECURSIVE CanSuspend(_)
\* awaiting a coroutine suspends the task only if something it awaits does
CanSuspend(f) ==
    \E g \in AwaitedBy[f] :
        \/ g \in SuspendingAwaitables
        \/ g \in DOMAIN AwaitedBy /\ CanSuspend(g)

\* the points at which control can pass from the running call to the other:
\* anywhere under threads; on the event loop when the running task has
\* finished or is suspended at an await
MaySwitch ==
    \/ scheduler = "threads"
    \/ scheduler = "event_loop"
          /\ (Finished(pc) \/ (pc # "start" /\ CanSuspend("optimize_placement")))

\* the other call runs on from where it was
Switch ==
    /\ UNCHANGED <<calcVars, fitVars, waterVars, growthVars, engVars>>
    /\ MaySwitch
    /\ ~Finished(other.pc)
    /\ other' = RunLocals
    /\ running' = 3 - running
    /\ plants' = other.plants
    /\ population' = other.population
    /\ fitness_scores' = other.fitness_scores
    /\ best_fitness' = other.best_fitness
    /\ best_solution' = other.best_solution
    /\ new_population' = other.new_population
    /\ generation' = other.generation
    /\ pairing' = other.pairing
    /\ child1' = other.child1
    /\ child2' = other.child2
    /\ pc' = other.pc
    /\ result' = other.result
    /\ error' = other.error
    /\ UNCHANGED <<garden_zones, population_size, generations, heap, moves, scheduler>>

\* call 1 is for Tomato, call 2 for Basil, on the same garden
TasksInit ==
    /\ plants = <<Tomato>>
    /\ garden_zones = <<Zone5>>
    /\ population_size = TournamentSize
    /\ generations = 1
    /\ heap = <<>>
    /\ population = <<>>
    /\ fitness_scores = <<>>
    /\ best_fitness = NegInf
    /\ best_solution = None
    /\ new_population = <<>>
    /\ generation = 0
    /\ pairing = 0
    /\ child1 = <<>>
    /\ child2 = <<>>
    /\ moves = 0
    /\ pc = "start"
    /\ result = None
    /\ error = "none"
    /\ other = NewCall(<<Basil>>)
    /\ running = 1
    /\ scheduler \in {"threads", "event_loop"}

TasksNext == GANext \/ Switch

\* a single call
TaskIdle ==
    /\ other = [pc |-> "none"]
    /\ running = 1
    /\ scheduler = "none"

-----------------------------------------------------------------------------
(* Specifications *)

GAIdle ==
    /\ plants = <<>>
    /\ garden_zones = <<>>
    /\ population_size = TournamentSize
    /\ generations = 1
    /\ heap = <<>>
    /\ population = <<>>
    /\ fitness_scores = <<>>
    /\ best_fitness = NegInf
    /\ best_solution = None
    /\ new_population = <<>>
    /\ generation = 0
    /\ pairing = 0
    /\ child1 = <<>>
    /\ child2 = <<>>
    /\ moves = 0
    /\ pc = "idle"
    /\ result = None
    /\ error = "none"

FitIdle ==
    /\ placements = <<>>
    /\ fit_zones = <<>>
    /\ fitness_ret = <<>>
    /\ conflicts_ret = NoConflictsCall
    /\ conflicts_prev = NoConflictsCall

WaterIdle == water_ret = <<>>

GrowthIdle == growth_ret = [called |-> FALSE]

EngIdle ==
    /\ eng_placements = <<>>
    /\ eng_zones = <<>>
    /\ eng_env = {}
    /\ eng_ret = [op |-> "none"]

\* one run of optimize_placement_genetic
Init == GAInit /\ CalcInit /\ FitIdle /\ WaterIdle /\ GrowthIdle /\ EngIdle /\ TaskIdle
Next == GANext
Spec == Init /\ [][Next]_vars

\* profile construction and spacing calls
InitCalc == GAIdle /\ CalcInit /\ FitIdle /\ WaterIdle /\ GrowthIdle /\ EngIdle /\ TaskIdle
SpecCalc == InitCalc /\ [][CalcNext]_vars

\* fitness and conflict detection on caller-supplied arrangements
InitFit == GAIdle /\ CalcInit /\ FitInit /\ WaterIdle /\ GrowthIdle /\ EngIdle /\ TaskIdle
SpecFit == InitFit /\ [][FitNext]_vars

\* calculate_water_needs
InitWater == GAIdle /\ CalcInit /\ FitIdle /\ WaterIdle /\ GrowthIdle /\ EngIdle /\ TaskIdle
SpecWater == InitWater /\ [][WaterNext]_vars

\* calculate_growth_prediction
InitGrowth == GAIdle /\ CalcInit /\ FitIdle /\ WaterIdle /\ GrowthIdle /\ EngIdle /\ TaskIdle
SpecGrowth == InitGrowth /\ [][GrowthNext]_vars

\* _crossover on caller-supplied parents
InitCross == CrossInit /\ CalcInit /\ FitIdle /\ WaterIdle /\ GrowthIdle /\ EngIdle /\ TaskIdle
SpecCross == InitCross /\ [][CallCrossover]_vars

\* population = await self._initialize_population(plants, garden_zones)
InitPlace == PlaceInit /\ CalcInit /\ FitIdle /\ WaterIdle /\ GrowthIdle /\ EngIdle /\ TaskIdle
SpecPlace == InitPlace /\ [][InitializePopulation]_vars

\* two optimize_placement calls on one engine, under threads or on the event loop
InitTasks == TasksInit /\ CalcInit /\ FitIdle /\ WaterIdle /\ GrowthIdle /\ EngIdle
SpecTasks == InitTasks /\ [][TasksNext]_vars

\* the engine's analysis, irrigation plan and incremental update
InitEngine == GAIdle /\ CalcInit /\ FitIdle /\ WaterIdle /\ GrowthIdle /\ EngInit /\ TaskIdle
SpecEngine == InitEngine /\ [][EngNext]_vars

-----------------------------------------------------------------------------
(* Properties of the optimizer run (specification Spec) *)

\* an individual holds one placement per input profile, in input order
WellFormed(individual) ==
    /\ Len(individual) = Len(plants)
    /\ \A i \in 1..Len(individual) : heap[individual[i]].plant_specs = plants[i]

\* C1: with at least one zone and at least two profiles, the fitness of the
\* returned arrangement, recomputed when it is returned, equals the maximum
\* fitness recorded over all evaluated individuals.
C1_ReturnedIsBestObserved ==
    (pc = "done" /\ Len(garden_zones) >= 1 /\ Len(plants) >= 2)
        => /\ result # None
           /\ Fitness(heap, result, garden_zones) = best_fitness

\* C2: in the Tomato/Basil scenario with one full-sun zone of area 10, the
\* returned arrangement has fitness >= 0 and both placements lie in the zone.
C2_ScenarioConverges ==
    (pc = "done" /\ plants = <<Tomato, Basil>> /\ garden_zones = <<Zone10>>)
        => /\ result # None
           /\ Fitness(heap, result, garden_zones) >= 0
           /\ \A i \in 1..Len(result) : InAnyZone(heap[result[i]], garden_zones)

C4_DegenerateInputsNeverRaise ==
    (plants = <<>> \/ garden_zones = <<>>)
        => /\ pc # "raised"
           /\ pc = "done" => result = <<>>

-----------------------------------------------------------------------------
(* Properties of fitness and detector (specification SpecFit) *)

RECURSIVE SetSum(_, _)
SetSum(f, D) ==
    IF D = {} THEN 0
    ELSE LET e == CHOOSE e \in D : TRUE
         IN  f[e] + SetSum(f, D \ {e})

UnorderedPairs(n) == {pr \in (1..n) \X (1..n) : pr[1] < pr[2]}

\* the required spacing of a pair (that of its earlier placement) at soil
\* quality 0.7, tenths of a centimetre
Required10(pl, pr) ==
    Max(10 * pl[pr[1]].plant_specs.spacing_optimal
          + 7 * (pl[pr[1]].plant_specs.spacing_min
                   - pl[pr[1]].plant_specs.spacing_optimal),
        10 * pl[pr[1]].plant_specs.spacing_min)

ListsOther(p, q) == q.plant_specs.name \in p.plant_specs.incompatible_plants

\* 10 x count minus the three penalties, the incompatibility of a pair being
\* decided by incompatible(p, q)
StatedFitness(pl, zones, incompatible(_, _)) ==
    LET n == Len(pl)
        spacing == [pr \in UnorderedPairs(n) |->
                      IF 100 * Dist2(pl[pr[1]], pl[pr[2]])
                           < Required10(pl, pr) * Required10(pl, pr)
                      THEN Required10(pl, pr) - Distance10(pl[pr[1]], pl[pr[2]])
                      ELSE 0]
        compat == [pr \in UnorderedPairs(n) |->
                      IF incompatible(pl[pr[1]], pl[pr[2]])
                         /\ Dist2(pl[pr[1]], pl[pr[2]]) < 100 * 100
                      THEN 5000 ELSE 0]
        outside == {i \in 1..n : \A k \in 1..Len(zones) : ~IsInZone(pl[i], zones[k])}
    IN  1000 * n - SetSum(spacing, UnorderedPairs(n))
                 - SetSum(compat, UnorderedPairs(n))
                 - 10000 * Cardinality(outside)

Mutual(p, q) == ListsOther(p, q) /\ ListsOther(q, p)
Either(p, q) == ListsOther(p, q) \/ ListsOther(q, p)

C6_DuplicateLowersFitness ==
    (/\ Len(fitness_ret) = 2
     /\ fitness_ret[1].arg # <<>>
     /\ \E k \in 1..Len(fitness_ret[1].arg) :
           fitness_ret[2].arg
               = Append(fitness_ret[1].arg, Duplicate(fitness_ret[1].arg, k)))
        => fitness_ret[2].value < fitness_ret[1].value

\* C7: an arrangement to which the fitness assigns no penalty gets empty
\* spacing, compatibility and zone violation lists from detect_conflicts.
C7_PenaltyFreeIsConflictFree ==
    (/\ fitness_ret # <<>>
     /\ conflicts_ret.called
     /\ conflicts_ret.arg = fitness_ret[Len(fitness_ret)].arg
     /\ conflicts_ret.arg # <<>>
     /\ fitness_ret[Len(fitness_ret)].value = 1000 * Len(conflicts_ret.arg))
        => /\ conflicts_ret.value.spacing_violations = <<>>
           /\ conflicts_ret.value.compatibility_violations = <<>>
           /\ conflicts_ret.value.zone_violations = <<>>

-----------------------------------------------------------------------------
(* Properties of profiles and spacing (specification SpecCalc) *)

\* C8: no profile object exists with spacing_min > spacing_optimal, with its
\* own name among its companions or incompatibles, or with a name in both.
C8_InvalidProfileRejected ==
    constructed
        => /\ profile.spacing_min <= profile.spacing_optimal
           /\ profile.name \notin profile.companion_plants
           /\ profile.name \notin profile.incompatible_plants
           /\ profile.companion_plants \cap profile.incompatible_plants = {}

\* C9: for every constructible profile, the spacing at soil quality 1.0 is
\* spacing_min and the spacing at soil quality 0.0 is spacing_optimal.
C9_SpacingEndpoints ==
    spacing_ret.called
        => /\ spacing_ret.soil = 10 => spacing_ret.value = 10 * profile.spacing_min
           /\ spacing_ret.soil = 0 => spacing_ret.value = 10 * profile.spacing_optimal

\* C10: the spacing is never below spacing_min, it does not increase when
\* the soil quality increases, and a memoized call returns the value of an
\* unmemoized evaluation.
C10_SpacingFlooredMonotoneMemoized ==
    /\ spacing_ret.called
         => /\ spacing_ret.value >= 10 * profile.spacing_min
            /\ spacing_ret.value = OptimalSpacing10(profile, spacing_ret.soil)
    /\ \A e1, e2 \in cache :
         (e1.plant_specs = e2.plant_specs /\ e1.soil <= e2.soil)
            => e2.value <= e1.value

-----------------------------------------------------------------------------
(* Properties of calculate_water_needs (specification SpecWater) *)

\* the tables of the documented formula, in the units of WaterNeeds
StatedKc10(stage) ==
    CASE stage = "seed" -> 3 [] stage = "seedling" -> 5 [] stage = "vegetative" -> 8
      [] stage = "flowering" -> 10 [] stage = "fruiting" -> 11 [] stage = "harvest" -> 7

StatedMultiplier10(tier) ==
    CASE tier = "low" -> 7 [] tier = "medium" -> 10 [] tier = "high" -> 13

StatedStress30(sm) == IF sm < 15 THEN 15 ELSE IF sm > 45 THEN 45 ELSE sm

StatedEt0(call) ==
    IF call.weather_data = {} THEN Et0Default
    ELSE (CHOOSE e \in call.weather_data : TRUE)[2]

StatedWater(call) ==
    LET product == StatedEt0(call) * StatedKc10(call.growth_stage)
                     * StatedMultiplier10(call.plant_specs.water_need)
                     * StatedStress30(call.soil_moisture)
                     * call.plant_specs.width_max * call.plant_specs.width_max
    IN  IF product > WaterFloor THEN product ELSE WaterFloor

SameWaterArgs(a, b) ==
    /\ a.plant_specs = b.plant_specs
    /\ a.weather_data = b.weather_data
    /\ a.soil_moisture = b.soil_moisture
    /\ a.growth_stage = b.growth_stage

\* C11: calculate_water_needs returns max(0.1, et0 x Kc(stage) x
\* multiplier(tier) x stress x width_max^2 / 10000) with the documented
\* tables and the stress soil_moisture / 0.3 clamped to [0.5, 1.5]; the
\* result is > 0 for every input; two calls with the same arguments return
\* the same value.
C11_WaterNeedsFormula ==
    /\ \A k \in 1..Len(water_ret) :
          /\ water_ret[k].value = StatedWater(water_ret[k])
          /\ water_ret[k].value > 0
    /\ Len(water_ret) = 2 /\ SameWaterArgs(water_ret[1], water_ret[2])
          => water_ret[1].value = water_ret[2].value

\* two calls with the same arguments, et0 = 0, where only the floor keeps
\* the result positive
C11_Witness ==
    /\ Len(water_ret) = 2
    /\ SameWaterArgs(water_ret[1], water_ret[2])
    /\ water_ret[2].weather_data = {<<"et0", 0>>}
    /\ water_ret[2].value = WaterFloor

\* C12 as stated: with profile, soil moisture and stage fixed, et0_a < et0_b
\* (both valid, i.e. >= 0) gives a strictly smaller result at et0_a.
C12_StrictlyIncreasing ==
    Len(water_ret) = 2 =>
        LET a == water_ret[1]
            b == water_ret[2]
        IN  0 <= StatedEt0(a) /\ StatedEt0(a) < StatedEt0(b) => a.value < b.value

\* C12, amended: with profile, soil moisture and stage fixed and
\* 0 <= et0_a < et0_b, the result at et0_a is never larger than the result
\* at et0_b, and it is strictly smaller whenever the result at et0_b is
\* above the floor 0.1.
C12_IncreasingAboveFloor ==
    Len(water_ret) = 2 =>
        LET a == water_ret[1]
            b == water_ret[2]
        IN  0 <= StatedEt0(a) /\ StatedEt0(a) < StatedEt0(b) =>
               /\ a.value <= b.value
               /\ b.value > WaterFloor => a.value < b.value

\* a pair of calls with et0 2.0 < 8.0 whose results are both above the floor
C12_Witness ==
    /\ Len(water_ret) = 2
    /\ water_ret[1].weather_data = {<<"et0", 20>>}
    /\ water_ret[2].weather_data = {<<"et0", 80>>}
    /\ water_ret[1].value > WaterFloor
    /\ water_ret[1].value < water_ret[2].value

-----------------------------------------------------------------------------
(* Properties of calculate_growth_prediction (specification SpecGrowth) *)

\* C13: current_progress is within [0, 1] and days_to_harvest is >= 0 for
\* every planting date (also one later than the current date) and every
\* profile, and the call never raises.
C13_ProgressAndHarvestInRange ==
    growth_ret.called =>
        /\ growth_ret.result.outcome = "returned"
        /\ LET progress == growth_ret.result.current_progress
           IN  0 <= progress[1] /\ progress[1] <= progress[2]
        /\ growth_ret.result.days_to_harvest >= 0

StatedModifier80(water, nutrient, temperature, humidity) ==
    LET raw == 80 - (water + nutrient + temperature + humidity)
    IN  IF raw < 40 THEN 40 ELSE IF raw > 120 THEN 120 ELSE raw

StatedStress(factors, key) ==
    IF \E e \in factors : e[1] = key THEN (CHOOSE e \in factors : e[1] = key)[2] ELSE 0

\* C14: the returned growth_modifier is within [0.5, 1.5] for every
\* combination of the four stresses, also outside [0, 1], and equals
\* clamp(1 - 0.5 x mean of the four stresses, 0.5, 1.5).
C14_GrowthModifierClamped ==
    growth_ret.called /\ growth_ret.result.outcome = "returned" =>
        LET gm == growth_ret.result.growth_modifier
        IN  /\ 40 <= gm /\ gm <= 120
            /\ gm = StatedModifier80(growth_ret.placement.water_stress,
                                     growth_ret.placement.nutrient_stress,
                                     StatedStress(growth_ret.environmental_factors,
                                                  "temperature_stress"),
                                     StatedStress(growth_ret.environmental_factors,
                                                  "humidity_stress"))

\* a call whose stresses sum to -5.0: 1 - 0.5 x mean is 1.625, returned 1.5
C14_Witness ==
    /\ growth_ret.called
    /\ growth_ret.result.outcome = "returned"
    /\ growth_ret.placement.water_stress = -30
    /\ growth_ret.placement.nutrient_stress = 0
    /\ growth_ret.environmental_factors = {<<"humidity_stress", -20>>}
    /\ growth_ret.result.growth_modifier = 120

-----------------------------------------------------------------------------
(* Properties of the detector's water conflicts (specification SpecFit) *)

\* the other high-water placements within 1.0 of placement i, i high-water
WaterNeighbours(pl, i) ==
    {j \in 1..Len(pl) :
        /\ j # i
        /\ pl[i].plant_specs.water_need = "high"
        /\ pl[j].plant_specs.water_need = "high"
        /\ Dist2(pl[i], pl[j]) < 100 * 100}

ReportedFor(conflicts, pl, i) ==
    \E k \in 1..Len(conflicts) :
        /\ conflicts[k].type = "water_competition"
        /\ conflicts[k].severity = "medium"
        /\ conflicts[k].plants[1] = pl[i].plant_id
        /\ {conflicts[k].plants[n] : n \in 1..Len(conflicts[k].plants)}
             = {pl[i].plant_id} \cup {pl[j].plant_id : j \in WaterNeighbours(pl, i)}

\* C15: for every high-water placement p with more than 2 other high-water
\* placements within 1.0, detect_conflicts reports a water_competition
\* conflict (severity medium) naming p and all those neighbours, whatever
\* the position of p in the list; no conflict is reported for a placement
\* with 2 or fewer such neighbours.
C15_WaterCompetitionForEveryPlacement ==
    conflicts_ret.called =>
        LET pl == conflicts_ret.arg
            conflicts == conflicts_ret.value.resource_conflicts
        IN  /\ \A i \in 1..Len(pl) :
                  Cardinality(WaterNeighbours(pl, i)) > 2 => ReportedFor(conflicts, pl, i)
            /\ \A k \in 1..Len(conflicts) :
                  \E i \in 1..Len(pl) :
                      /\ conflicts[k].plants[1] = pl[i].plant_id
                      /\ Cardinality(WaterNeighbours(pl, i)) > 2

\* a step that is a call of detect_conflicts
DetectorCalled ==
    conflicts_ret' # conflicts_ret \/ conflicts_prev' # conflicts_prev

-----------------------------------------------------------------------------
(* Properties of the engine (specification SpecEngine) *)

AnalysisReturned ==
    /\ eng_ret.op = "analysis"
    /\ eng_ret.report.outcome = "returned"

\* the total area of the garden zones handed to the engine, m^2
TotalZoneArea == SumSeq([k \in 1..Len(eng_zones) |-> eng_zones[k].area])

\* C17: for a non-empty arrangement, space_utilization = placement_count /
\* total area of the garden zones, conflict_penalty = 0.1 x #spacing +
\* 0.2 x #compatibility + 0.3 x #zone violations, and overall_score =
\* 25 x space_utilization + 25 x water_efficiency + 25 x avg_solar_score +
\* 25 x (1 - min(conflict_penalty, 1)).
C17_EfficiencyMetricsAsStated ==
    AnalysisReturned /\ eng_ret.placements # <<>> =>
        LET m == eng_ret.report.efficiency_metrics
            c == eng_ret.report.conflicts
            penalty == 100 * Len(c.spacing_violations)
                       + 200 * Len(c.compatibility_violations)
                       + 300 * Len(c.zone_violations)
        IN  /\ m.space_utilization = (1000 * Len(eng_ret.placements)) \div TotalZoneArea
            /\ m.conflict_penalty = penalty
            /\ m.overall_score =
                   25 * m.space_utilization + 25 * m.water_efficiency
                   + 25 * m.solar_efficiency
                   + 25 * (1000 - (IF penalty < 1000 THEN penalty ELSE 1000))

\* C18: the report holds one solar score and one growth prediction per
\* placement of the list, and total_predicted_yield is the sum of the
\* predicted yield of every placement of the list.
C18_OneEntryPerPlacement ==
    AnalysisReturned =>
        LET pl == eng_ret.placements
            r == eng_ret.report
        IN  /\ Len(r.solar_analysis) = Len(pl)
            /\ Len(r.growth_predictions) = Len(pl)
            /\ r.total_predicted_yield =
                   SumSeq([k \in 1..Len(pl) |->
                             GrowthPrediction(pl[k].plant_specs, pl[k], eng_env,
                                              Today).predicted_yield])

Count(q, e) == Cardinality({k \in 1..Len(q) : q[k] = e})

StatedWeather(env) ==
    IF \E e \in env : e[1] = "weather" THEN (CHOOSE e \in env : e[1] = "weather")[2] ELSE {}

\* C20: calculate_irrigation_zones has a group for a tier iff a placement
\* has that tier; every placement is in exactly one group, that of its own
\* tier; total_water_needs has exactly one entry per group, the sum of the
\* members' water needs at soil moisture 0.5.
C20_ZonesPartitionByTier ==
    eng_ret.op = "irrigation" =>
        LET pl == eng_ret.placements
            zones == eng_ret.report.zones
            needs == eng_ret.report.total_water_needs
            members(g) == zones[g][2].plants
        IN  /\ \A tier \in {"low", "medium", "high"} :
                  Count(Keys(zones), tier)
                      = IF \E i \in 1..Len(pl) : pl[i].plant_specs.water_need = tier
                        THEN 1 ELSE 0
            /\ \A i \in 1..Len(pl) : \A g \in 1..Len(zones) :
                  Count(members(g), pl[i])
                      = IF zones[g][1] = pl[i].plant_specs.water_need
                        THEN Count(pl, pl[i]) ELSE 0
            /\ SumSeq([g \in 1..Len(zones) |-> Len(members(g))]) = Len(pl)
            /\ Keys(needs) = Keys(zones)
            /\ \A g \in 1..Len(zones) :
                  needs[g][2] =
                     SumSeq([k \in 1..Len(members(g)) |->
                               StatedWater([plant_specs |-> members(g)[k].plant_specs,
                                            weather_data |-> StatedWeather(eng_env),
                                            soil_moisture |-> 50,
                                            growth_stage |-> members(g)[k].current_stage])])

\* a plan with two groups, one of them with two members
C20_Witness ==
    /\ eng_ret.op = "irrigation"
    /\ Len(eng_ret.report.zones) = 2
    /\ \E g \in 1..2 : Len(eng_ret.report.zones[g][2].plants) = 2
    /\ eng_env # {}

-----------------------------------------------------------------------------
(* Properties of mutation, regeneration and the returned ids (specification Spec) *)

\* a step that is the call child = self._mutate(child, ...) changing a position
MutationMoved ==
    /\ pc \in {"mutate1", "mutate2"}
    /\ heap' # heap

MutatedChild == IF pc = "mutate1" THEN child1 ELSE child2

SiblingChild == IF pc = "mutate1" THEN child2 ELSE child1

Abs(v) == IF v < 0 THEN -v ELSE v

\* the mutated child's placements all moved, each coordinate by at most 0.5 m
MovedEveryPlacement ==
    \A i \in 1..Len(MutatedChild) :
        LET before == heap[MutatedChild[i]]
            after == heap'[MutatedChild[i]]
        IN  /\ <<after.x, after.y>> # <<before.x, before.y>>
            /\ Abs(after.x - before.x) <= 50
            /\ Abs(after.y - before.y) <= 50

\* C23: whenever mutation is triggered for a child, _mutate moves every
\* placement of that child, each coordinate by an offset within [-0.5, 0.5];
\* no placement of the mutated child keeps its position.
C23_MutationMovesEveryPlacement == [][MutationMoved => MovedEveryPlacement]_vars

\* the placements of every individual other than the mutated child are as before
OthersUnchanged ==
    /\ \A m \in 1..Len(population) :
          Deref(heap', population[m]) = Deref(heap, population[m])
    /\ \A m \in 1..Len(new_population) :
          Deref(heap', new_population[m]) = Deref(heap, new_population[m])
    /\ Deref(heap', SiblingChild) = Deref(heap, SiblingChild)
    /\ (best_solution # None =>
          Deref(heap', best_solution) = Deref(heap, best_solution))

\* C24: _mutate leaves unchanged the positions of all placements of both
\* parents and of every other member of the old population, of the sibling
\* child, of every member of the new population and of the recorded best
\* solution.
C24_MutationLeavesOthersUnchanged == [][MutationMoved => OthersUnchanged]_vars

\* C27: for every population_size >= 3, even or odd, the population holds
\* exactly population_size individuals at the start of every generation.
C27_PopulationSizeKept ==
    pc = "evaluate" => Len(population) = population_size

\* C28: a run for exactly one profile and at least one zone does not raise
\* and returns a one-element arrangement, on every path, also when
\* crossover is selected.
C28_SingleProfileRunReturns ==
    (Len(plants) = 1 /\ Len(garden_zones) >= 1)
        => /\ pc # "raised"
           /\ (pc = "done" => (result # None /\ Len(result) = 1))

\* C30: in every returned arrangement, also when the input lists the same
\* profile more than once, no two placements have the same plant_id.
C30_ReturnedIdsDistinct ==
    (pc = "done" /\ result # None)
        => \A i, j \in 1..Len(result) :
              i # j => heap[result[i]].plant_id # heap[result[j]].plant_id

-----------------------------------------------------------------------------
(* Order of the placements in a list (specification SpecFit) *)

\* the bijections of 1..n
Perms(n) == {f \in [1..n -> 1..n] : \A a, b \in 1..n : a # b => f[a] # f[b]}

\* the same placements listed in the order f
Permuted(pl, f) == [i \in 1..Len(pl) |-> pl[f[i]]]

\* the reported spacing violations as unordered pairs with their required distance
SpacingReport(violations) ==
    {<<{violations[k].plant1, violations[k].plant2}, violations[k].required_distance>> :
        k \in 1..Len(violations)}

\* C29: for every arrangement and every permutation of it, _calculate_fitness
\* returns the same value and detect_conflicts reports spacing violations
\* for the same unordered pairs with the same required distance.
C29_OrderIndependent ==
    /\ \A c \in 1..Len(fitness_ret) :
          \A f \in Perms(Len(fitness_ret[c].arg)) :
              CalculateFitness(Permuted(fitness_ret[c].arg, f), fit_zones)
                  = fitness_ret[c].value
    /\ conflicts_ret.called =>
          \A f \in Perms(Len(conflicts_ret.arg)) :
              SpacingReport(SpacingViolations(Permuted(conflicts_ret.arg, f)))
                  = SpacingReport(conflicts_ret.value.spacing_violations)

-----------------------------------------------------------------------------
(* Properties of crossover (specification SpecCross) *)

Parent1 == population[1]

Parent2 == population[2]

\* the two children are the parents cut at k and recombined
CutAt(k) ==
    /\ child1 = SubSeq(Parent1, 1, k) \o SubSeq(Parent2, k + 1, Len(Parent2))
    /\ child2 = SubSeq(Parent2, 1, k) \o SubSeq(Parent1, k + 1, Len(Parent1))

\* C25: for parents of equal length n >= 2, _crossover returns the parents
\* cut at one point k, 1 <= k <= n - 1, and recombined, so at every index the
\* two children hold exactly the two parents' placements for that index; for
\* parents of different lengths it returns both parents unchanged.
C25_SinglePointCrossover ==
    /\ (Len(Parent1) = Len(Parent2) /\ Len(Parent1) >= 2)
          => /\ pc # "raised"
             /\ pc = "crossed"
                  => /\ \E k \in 1..(Len(Parent1) - 1) : CutAt(k)
                     /\ Len(child1) = Len(Parent1) /\ Len(child2) = Len(Parent1)
                     /\ \A i \in 1..Len(Parent1) :
                           \/ child1[i] = Parent1[i] /\ child2[i] = Parent2[i]
                           \/ child1[i] = Parent2[i] /\ child2[i] = Parent1[i]
    /\ Len(Parent1) # Len(Parent2)
          => /\ pc # "raised"
             /\ pc = "crossed" => (child1 = Parent1 /\ child2 = Parent2)
    /\ heap = CrossHeap

\* two parents of the greatest length cut after the first placement
C25_Witness ==
    /\ pc = "crossed"
    /\ Len(Parent1) = MaxLen
    /\ Len(Parent2) = MaxLen
    /\ CutAt(1)

-----------------------------------------------------------------------------
(* Properties of the initial population (specification SpecPlace) *)

\* the draws of _create_random_placement that produce the placement
DrawsOf(placement) ==
    {d \in Draws(garden_zones) :
        CreateRandomPlacement(placement.plant_specs, garden_zones, d) = placement}

\* C26: every placement of every individual of the initial population lies
\* inside the zone chosen for it, so every initial individual has zone
\* penalty 0 and detect_conflicts reports no zone violation for it.
C26_InitialPlacementsInChosenZone ==
    pc = "evaluate" =>
        \A m \in 1..Len(population) :
            /\ \A i \in 1..Len(population[m]) :
                  LET placement == heap[population[m][i]]
                  IN  /\ DrawsOf(placement) # {}
                      /\ \A d \in DrawsOf(placement) :
                            IsInZone(placement, garden_zones[d.zone])
            /\ ZonePenaltyOf(Deref(heap, population[m]), garden_zones) = 0
            /\ ZoneViolations(Deref(heap, population[m]), garden_zones) = <<>>

\* an initial individual with one placement in each of two zones, each
\* outside the other zone
C26_Witness ==
    /\ pc = "evaluate"
    /\ Len(garden_zones) = 2
    /\ \E m \in 1..Len(population) :
          /\ Len(population[m]) = 2
          /\ IsInZone(heap[population[m][1]], Zone5)
          /\ ~IsInZone(heap[population[m][1]], Zone10)
          /\ IsInZone(heap[population[m][2]], Zone10)
          /\ ~IsInZone(heap[population[m][2]], Zone5)

-----------------------------------------------------------------------------
(* Properties of two calls on one engine (specification SpecTasks) *)

Range(q) == {q[i] : i \in 1..Len(q)}

ListIds(q) == IF q = None THEN {} ELSE Range(q)

\* the placement objects reachable from the arguments and locals of a call
IdsIn(l) ==
    UNION {Range(l.population[m]) : m \in 1..Len(l.population)}
      \cup UNION {Range(l.new_population[m]) : m \in 1..Len(l.new_population)}
      \cup Range(l.child1) \cup Range(l.child2)
      \cup ListIds(l.best_solution) \cup ListIds(l.result)

\* the objects of one _initialize_population call have consecutive
\* identities: the call that created an object, in order of creation
CreatedIn(id) == (id - 1) \div (population_size * Len(plants))

CreatorsOf(l) == {CreatedIn(id) : id \in IdsIn(l)}

\* each call reaches the objects of one _initialize_population call only,
\* and the two calls reach no object created by the same call
Separated ==
    /\ Cardinality(CreatorsOf(RunLocals)) <= 1
    /\ Cardinality(CreatorsOf(other)) <= 1
    /\ CreatorsOf(RunLocals) \cap CreatorsOf(other) = {}

\* a returned arrangement holds one placement per profile of its own call
OwnResult(l) ==
    (l.pc = "done" /\ l.result # None)
        => /\ Len(l.result) = Len(l.plants)
           /\ \A i \in 1..Len(l.result) : heap[l.result[i]].plant_specs = l.plants[i]

\* a step of the running call leaves the other call's arguments and locals
\* and every object it did not create as they were
StepOfRunningCall ==
    running' = running =>
        /\ other' = other
        /\ \A id \in 1..Len(heap) :
              CreatedIn(id) \notin CreatorsOf(RunLocals) => heap'[id] = heap[id]

\* C21: when two optimize_placement calls on one engine are interleaved in
\* any order, no placement object created by one call is reachable from or
\* modified by the other, so that each call returns what it returns when
\* run alone with the same random draws.
C21_CallsShareNoMutableState ==
    [][Separated' /\ OwnResult(RunLocals)' /\ OwnResult(other)' /\ StepOfRunningCall]_vars

\* both calls are in the middle of a pairing and a mutation has moved a
\* placement of the call that is running
C21_Witness ==
    /\ scheduler = "threads"
    /\ pc = "mutate2"
    /\ other.pc = "mutate1"
    /\ moves = 1
    /\ \E i \in 1..Len(child1) : heap[child1[i]].x # Zone5.coordinates[1] + 40

\* on the event loop the two calls never both stand between start and completion
EventLoopNeverInterleaves ==
    scheduler = "event_loop" => (other.pc = "start" \/ Finished(other.pc))

\* C22: an optimize_placement call running as a task of the event loop
\* returns control to the scheduler between its start and its completion, so
\* the other task, ready since the start, has taken a step when the call
\* completes.
C22_EventLoopNotBlocked ==
    (scheduler = "event_loop" /\ running = 1 /\ pc = "done") => other.pc # "start"

=============================================================================
